---- MODULE Spec2Model ----
(***************************************************************************)
(* A model of the chatbot's tool-orchestration engine:                     *)
(*   - EcommerceToolExecutor (app/chatbot/tool_executor.py)                *)
(*   - ChatbotService.chat / _generate_with_tools (app/chatbot/service.py) *)
(*   - ChatHistoryService (app/services/chat_history_service.py)           *)
(*   - the chat endpoints (app/api/v1/endpoints/chatbot.py)                *)
(*                                                                         *)
(* Python values are encoded as follows.  A dict is a TLA+ function whose  *)
(* DOMAIN is the dict's key set.  None is NoCustomer / NoToken / NoId /    *)
(* NoCount / NoText, according to the type of the slot.  An operation that *)
(* can raise returns a record whose kind is "return" or "raise".           *)
(***************************************************************************)
EXTENDS Integers, Sequences, FiniteSets, TLC

(***************************************************************************)
(* Bounds of the model                                                     *)
(***************************************************************************)
MaxSessions == 2
MaxToolRounds == 6
MaxFaults == 1
SharedToolRounds == 1
MaxItems == 2
MaxHistory == 30
MaxProducts == 3
MaxAddresses == 2

(***************************************************************************)
(* Tool executor                                                           *)
(***************************************************************************)
NoToken == "none"
EmptyToken == ""

\* bool(auth_token): None and the empty string are falsy
Truthy(tok) == tok # NoToken /\ tok # EmptyToken

\* the keys of executor_map
ToolNames ==
    {"search_products", "get_product_details", "get_categories",
     "get_products_by_category", "get_brands", "find_product_by_name",
     "check_stock", "check_stock_by_name", "get_cart", "add_to_cart",
     "remove_from_cart", "clear_cart", "get_vouchers", "apply_voucher",
     "remove_voucher", "get_addresses", "find_address_by_label", "checkout",
     "get_orders", "get_order_details", "compare_products",
     "get_gift_suggestions"}

\* a name the model can ask for that executor_map does not hold
UnknownTool == "no_such_tool"

\* handlers that start with `if not self.context.auth_token: return {"error": ...}`
AuthTools ==
    {"get_cart", "add_to_cart", "remove_from_cart", "clear_cart",
     "apply_voucher", "remove_voucher", "get_addresses",
     "find_address_by_label", "checkout", "get_orders", "get_order_details"}

\* the argument a handler reads with args["..."] (KeyError when absent)
RequiredArg ==
    [n \in ToolNames |->
        CASE n \in {"get_product_details", "check_stock", "add_to_cart"} -> {"product_id"}
          [] n = "get_products_by_category" -> {"category_id"}
          [] n = "remove_from_cart" -> {"order_item_id"}
          [] n = "apply_voucher" -> {"voucher_code"}
          [] n = "checkout" -> {"shipping_address_id"}
          [] n = "get_order_details" -> {"order_id"}
          [] OTHER -> {}]

\* the message of each handler's authentication guard
AuthMessage ==
    [n \in AuthTools |->
        CASE n = "get_cart" -> "Authentication required to view cart"
          [] n = "add_to_cart" -> "Authentication required to add to cart"
          [] n = "remove_from_cart" -> "Authentication required to modify cart"
          [] n = "clear_cart" -> "Authentication required to clear cart"
          [] n = "apply_voucher" -> "Authentication required to apply voucher"
          [] n = "remove_voucher" -> "Authentication required to remove voucher"
          [] n = "get_addresses" -> "Authentication required to view addresses"
          [] n = "find_address_by_label" -> "Authentication required to find addresses"
          [] n = "checkout" -> "Authentication required to checkout"
          [] n = "get_orders" -> "Authentication required to view orders"
          [] OTHER -> "Authentication required to view order details"]

AuthRequiredMessages == {AuthMessage[n] : n \in AuthTools}

(* What one downstream request can do:
     ok          2xx, JSON object body
     ok_nonjson  2xx, body is not JSON
     err_msg     4xx/5xx, JSON object body with a message field
     err_nomsg   4xx/5xx, JSON object body without a message field
     err_nonjson 4xx/5xx, body is not JSON
     transport   the request itself fails (connect error, timeout)        *)
RespKinds == {"ok", "ok_nonjson", "err_msg", "err_nomsg", "err_nonjson", "transport"}
ErrKinds == {"err_msg", "err_nomsg", "err_nonjson"}

Return(d, n) == [kind |-> "return", data |-> d, requests |-> n]
Raise(e, b, n) == [kind |-> "raise", exc |-> e, body |-> b, requests |-> n]

\* response = await client.get(...); response.raise_for_status();
\* return response.json().get("data", {})        (n requests issued so far)
Fetch(r, n) ==
    CASE r = "transport" -> Raise("TransportError", "none", n + 1)
      [] r \in ErrKinds -> Raise("HTTPStatusError", r, n + 1)
      [] r = "ok_nonjson" -> Raise("JSONDecodeError", "none", n + 1)
      [] OTHER -> Return([payload |-> "data"], n + 1)

\* argument values: the type and the length; a string is the sequence of its
\* characters; a list of n product identifiers holds n different identifiers,
\* not in ascending order
Str(text) == [type |-> "str", len |-> Len(text), text |-> text]
StrVal == Str(<<"h">>)
IntVal == [type |-> "int", len |-> 0]
ListVal(n) == [type |-> "list", len |-> n, items |-> [i \in 1..n |-> 7 - i]]

EmptyArgs == [k \in {} |-> StrVal]

\* the behaviour of the e-commerce collaborator during one tool call: the
\* outcome of the first request, of every later request (each[k - 1] for
\* request k where it is given, rest otherwise), the number of items a search
\* result holds (pages[k] lists the product identifiers that request k finds,
\* where it is given), and the customer's saved addresses
Env(first, rest, items) ==
    [first |-> first, rest |-> rest, items |-> items, each |-> <<>>, pages |-> <<>>,
     addresses |-> <<>>]

Resp(env, k) ==
    IF k = 1 THEN env.first
    ELSE IF k - 1 \in DOMAIN env.each THEN env.each[k - 1]
    ELSE env.rest

Uppercase ==
    <<"A", "B", "C", "D", "E", "F", "G", "H", "I", "J", "K", "L", "M",
      "N", "O", "P", "Q", "R", "S", "T", "U", "V", "W", "X", "Y", "Z">>
Lowercase ==
    <<"a", "b", "c", "d", "e", "f", "g", "h", "i", "j", "k", "l", "m",
      "n", "o", "p", "q", "r", "s", "t", "u", "v", "w", "x", "y", "z">>

\* str.lower()
lower(text) ==
    [i \in 1..Len(text) |->
        IF \E n \in 1..26 : Uppercase[n] = text[i]
        THEN Lowercase[CHOOSE n \in 1..26 : Uppercase[n] = text[i]]
        ELSE text[i]]

\* a in b, for two strings
In(a, b) == \E i \in 0..(Len(b) - Len(a)) : SubSeq(b, i + 1, i + Len(a)) = a

\* None in the place of a label; it is no sequence of label characters
NoLabel == <<"None">>

_simple_handler_args_first(name, args, tok, env) ==
    IF ~(RequiredArg[name] \subseteq DOMAIN args)
    THEN Raise("KeyError", "none", 0)
    ELSE IF name \in AuthTools /\ ~Truthy(tok)
    THEN Return([error |-> AuthMessage[name]], 0)
    ELSE Fetch(Resp(env, 1), 0)

\* the handlers that issue one request: optional authentication guard, then
\* the required argument, then the request
_simple_handler(name, args, tok, env) ==
    IF name \in AuthTools /\ ~Truthy(tok)
    THEN Return([error |-> AuthMessage[name]], 0)
    ELSE IF ~(RequiredArg[name] \subseteq DOMAIN args)
    THEN Raise("KeyError", "none", 0)
    ELSE Fetch(Resp(env, 1), 0)

_find_product_by_name(args, env) ==
    LET f == Fetch(Resp(env, 1), 0)
    IN  IF f.kind = "raise" THEN f
        ELSE Return([found |-> env.items > 0, total_found |-> env.items], 1)

\* data.get("items", []) of a catalog search: env.items products, whose
\* identifiers differ and are not in ascending order
SearchItems(env) == [i \in 1..env.items |-> [product_id |-> 7 - i]]

_check_stock_by_name_aborts(args, env) ==
    LET f == Fetch(Resp(env, 1), 0)
        items == SearchItems(env)
        bad == {i \in 1..Len(items) : Resp(env, 1 + i) # "ok"}
    IN  IF f.kind = "raise" THEN f
        ELSE IF items = <<>>
        THEN Return([found |-> FALSE, message |-> "No products found matching"], 1)
        ELSE IF bad # {}
        THEN LET i == CHOOSE x \in bad : \A y \in bad : x <= y
             IN  Fetch(Resp(env, 1 + i), i)
        ELSE Return([found |-> TRUE,
                     products_with_stock |->
                         [i \in 1..Len(items) |->
                             [product_id |-> items[i].product_id,
                              stock_status |-> "IN_STOCK", is_in_stock |-> TRUE]],
                     total_found |-> Len(items)], 1 + Len(items))

\* the search, then one stock request per item, each inside its own
\* try/except Exception; the name, brand, price and department of the product
\* are copied like its identifier and are left out
_check_stock_by_name(args, env) ==
    LET f == Fetch(Resp(env, 1), 0)
        items == SearchItems(env)
        stock_results ==
            [i \in 1..Len(items) |->
                IF Resp(env, 1 + i) = "ok"
                THEN [product_id |-> items[i].product_id,
                      stock_status |-> "IN_STOCK", is_in_stock |-> TRUE]
                ELSE [product_id |-> items[i].product_id,
                      error |-> "Unable to check stock"]]
    IN  IF f.kind = "raise" THEN f
        ELSE IF items = <<>>
        THEN Return([found |-> FALSE, message |-> "No products found matching"], 1)
        ELSE Return([found |-> TRUE,
                     products_with_stock |-> stock_results,
                     total_found |-> Len(stock_results)], 1 + Len(items))

matching_addresses_one_direction(label, addresses) ==
    SelectSeq(addresses, LAMBDA addr :
        LET addr_label == IF addr.customer_address_label = NoLabel THEN <<>>
                          ELSE lower(addr.customer_address_label)
        IN  In(label, addr_label))

\* the loop of _find_address_by_label:
\*   addr_label = (addr.get("customer_address_label") or "").lower()
\*   if label in addr_label or addr_label in label: matching_addresses.append(addr)
matching_addresses(label, addresses) ==
    SelectSeq(addresses, LAMBDA addr :
        LET addr_label == IF addr.customer_address_label = NoLabel THEN <<>>
                          ELSE lower(addr.customer_address_label)
        IN  In(label, addr_label) \/ In(addr_label, label))

\* street_address and city are copied like the identifier and are left out
_find_address_by_label(args, tok, env) ==
    IF ~Truthy(tok)
    THEN Return([error |-> AuthMessage["find_address_by_label"]], 0)
    ELSE IF "label" \in DOMAIN args /\ args["label"].type # "str"
    THEN Raise("AttributeError", "none", 0)          \* .lower() of a non-string
    ELSE LET label == IF "label" \in DOMAIN args THEN lower(args["label"].text) ELSE <<>>
             f == Fetch(Resp(env, 1), 0)
             addresses == env.addresses
             matching == matching_addresses(label, addresses)
         IN  IF f.kind = "raise" THEN f
             ELSE IF addresses = <<>>
             THEN Return([found |-> FALSE,
                          message |-> "No saved addresses found for this customer",
                          search_label |-> label], 1)
             ELSE IF matching = <<>>
             THEN Return([found |-> FALSE,
                          message |-> "No address found with label",
                          search_label |-> label,
                          available_addresses |->
                              [i \in 1..Len(addresses) |->
                                  [customer_address_id |-> addresses[i].customer_address_id,
                                   label |-> addresses[i].customer_address_label]]], 1)
             ELSE Return([found |-> TRUE,
                          search_label |-> label,
                          matching_addresses |-> matching,
                          total_found |-> Len(matching),
                          recommended_address_id |-> matching[1].customer_address_id], 1)

comparison_attributes ==
    <<"product_name", "product_brand", "retail_price", "department", "stock_status">>

_compare_products_requests_stock_first(ids) ==
    [k \in 1..(2 * Len(ids)) |->
        [path |-> IF k % 2 = 1 THEN "/stock" ELSE "/products",
         id |-> ids[(k + 1) \div 2]]]

\* the requests of the loop of _compare_products when none fails: for each
\* product_id GET /products/{product_id}, then GET /stock/{product_id}
_compare_products_requests(ids) ==
    [k \in 1..(2 * Len(ids)) |->
        [path |-> IF k % 2 = 1 THEN "/products" ELSE "/stock",
         id |-> ids[(k + 1) \div 2]]]

\* the handler's result and, in paths, the requests it issued; the loop is
\* left at the first request that fails
_compare_products(args, env) ==
    LET product_ids ==
            IF "product_ids" \in DOMAIN args THEN args["product_ids"] ELSE ListVal(0)
        Rejected(message) ==
            [kind |-> "return", data |-> [error |-> message], requests |-> 0,
             paths |-> <<>>]
    IN  IF product_ids.type = "int"                         \* len() of a number
        THEN [kind |-> "raise", exc |-> "TypeError", body |-> "none",
              requests |-> 0, paths |-> <<>>]
        ELSE IF product_ids.len < 2
        THEN Rejected("At least 2 products are required for comparison")
        ELSE IF product_ids.len > 5
        THEN Rejected("Maximum 5 products can be compared at once")
        ELSE LET ids == product_ids.items
                 all == _compare_products_requests(ids)
                 bad == {k \in 1..Len(all) : Resp(env, k) # "ok"}
             IN  IF bad = {}
                 THEN [kind |-> "return",
                       data |-> [products |-> [i \in 1..Len(ids) |-> all[2 * i - 1]],
                                 stock_info |-> [i \in 1..Len(ids) |-> all[2 * i]],
                                 comparison_attributes |-> comparison_attributes],
                       requests |-> Len(all), paths |-> all]
                 ELSE LET k == CHOOSE x \in bad : \A y \in bad : x <= y
                          f == Fetch(Resp(env, k), k - 1)
                      IN  [kind |-> "raise", exc |-> f.exc, body |-> f.body,
                           requests |-> k, paths |-> SubSeq(all, 1, k)]

\* tools.py: the keys are strings of characters, as the texts they are
\* compared with; a table is the sequence of its entries in source order
GIFT_CATEGORY_MAPPING ==
    <<
      [key |-> <<"g", "i", "r", "l", "f", "r", "i", "e", "n", "d">>,
       value |-> <<"Jewelry", "Perfume", "Accessories", "Clothing", "Bags">>],
      [key |-> <<"b", "o", "y", "f", "r", "i", "e", "n", "d">>,
       value |-> <<"Electronics", "Watches", "Clothing", "Accessories", "Sports">>],
      [key |-> <<"m", "o", "t", "h", "e", "r">>,
       value |-> <<"Jewelry", "Perfume", "Home", "Bags", "Clothing">>],
      [key |-> <<"f", "a", "t", "h", "e", "r">>,
       value |-> <<"Electronics", "Watches", "Clothing", "Sports", "Tools">>],
      [key |-> <<"f", "r", "i", "e", "n", "d">>,
       value |-> <<"Accessories", "Electronics", "Books", "Sports", "Clothing">>],
      [key |-> <<"w", "i", "f", "e">>,
       value |-> <<"Jewelry", "Perfume", "Bags", "Clothing", "Accessories">>],
      [key |-> <<"h", "u", "s", "b", "a", "n", "d">>,
       value |-> <<"Electronics", "Watches", "Clothing", "Sports", "Accessories">>],
      [key |-> <<"c", "h", "i", "l", "d">>,
       value |-> <<"Toys", "Books", "Games", "Clothing", "Electronics">>],
      [key |-> <<"t", "e", "e", "n">>,
       value |-> <<"Electronics", "Games", "Clothing", "Accessories", "Sports">>]
    >>

VAGUE_QUERY_MAPPING ==
    <<
      [key |-> <<"g", "i", "f", "t">>,
       value |-> <<"accessories", "jewelry", "perfume", "watches">>],
      [key |-> <<"p", "r", "e", "s", "e", "n", "t">>,
       value |-> <<"accessories", "jewelry", "perfume", "watches">>],
      [key |-> <<"s", "o", "m", "e", "t", "h", "i", "n", "g", " ", "n", "i", "c", "e">>,
       value |-> <<"jewelry", "accessories", "clothing">>],
      [key |-> <<"s", "u", "r", "p", "r", "i", "s", "e">>,
       value |-> <<"jewelry", "perfume", "accessories", "electronics">>],
      [key |-> <<"r", "o", "m", "a", "n", "t", "i", "c">>,
       value |-> <<"jewelry", "perfume", "accessories">>],
      [key |-> <<"s", "p", "e", "c", "i", "a", "l">>,
       value |-> <<"jewelry", "watches", "perfume">>]
    >>

default_categories == <<"Accessories", "Jewelry", "Clothing">>
category_limit == 3
page_size == 20
suggestion_limit == 10

\* dict.get(key, default) on a table
Lookup(entries, key, default) ==
    IF \E i \in 1..Len(entries) : entries[i].key = key
    THEN entries[CHOOSE i \in 1..Len(entries) : entries[i].key = key].value
    ELSE default

\* for vague_term, mapped_terms in VAGUE_QUERY_MAPPING.items():
\*     if vague_term in preferences.lower(): search_terms.extend(mapped_terms)
RECURSIVE mapped_search_terms(_, _)
mapped_search_terms(entries, preferences) ==
    IF entries = <<>> THEN <<>>
    ELSE (IF In(Head(entries).key, lower(preferences)) THEN Head(entries).value ELSE <<>>)
             \o mapped_search_terms(Tail(entries), preferences)

\* data.get("items", []) of request k
ItemsOf(env, k) ==
    IF k \in DOMAIN env.pages
    THEN [i \in 1..Len(env.pages[k]) |-> [product_id |-> env.pages[k][i]]]
    ELSE SearchItems(env)

\* all_products.extend(items) for every request that answers 200
RECURSIVE extend_all(_, _)
extend_all(env, n) ==
    IF n = 0 THEN <<>>
    ELSE extend_all(env, n - 1) \o (IF Resp(env, n) = "ok" THEN ItemsOf(env, n) ELSE <<>>)

\* the last loop of _get_gift_suggestions: seen_ids, unique_products, break
RECURSIVE unique_products(_, _, _)
unique_products(all_products, seen, found) ==
    IF all_products = <<>> \/ found >= suggestion_limit THEN <<>>
    ELSE LET product == Head(all_products)
         IN  IF product.product_id \notin seen
             THEN <<product>> \o unique_products(Tail(all_products),
                                                  seen \cup {product.product_id}, found + 1)
             ELSE unique_products(Tail(all_products), seen, found)

\* The handler's result and, in searches, the parameters of the requests it
\* issued; search_terms is built and not read again.  No raise_for_status
\* here: a response whose status is not 200 is skipped, a request that fails
\* and a 200 whose body is not JSON raise.
_get_gift_suggestions(args, env) ==
    IF \E k \in {"recipient", "preferences"} :
           k \in DOMAIN args /\ args[k].type # "str"
    THEN [kind |-> "raise", exc |-> "AttributeError", body |-> "none", requests |-> 0,
          searches |-> <<>>, search_terms |-> <<>>]
    ELSE LET recipient == IF "recipient" \in DOMAIN args
                          THEN lower(args["recipient"].text) ELSE <<>>
             preferences == IF "preferences" \in DOMAIN args
                            THEN args["preferences"].text ELSE <<>>
             categories == Lookup(GIFT_CATEGORY_MAPPING, recipient, default_categories)
             search_terms ==
                 [own |-> IF preferences # <<>> THEN <<preferences>> ELSE <<>>,
                  mapped |-> mapped_search_terms(VAGUE_QUERY_MAPPING, preferences)]
             selected == SubSeq(categories, 1,
                                IF Len(categories) < category_limit
                                THEN Len(categories) ELSE category_limit)
             params(k) ==
                 IF "budget_max" \in DOMAIN args /\ args["budget_max"].type = "int"
                 THEN [page_size |-> page_size, max_price |-> args["budget_max"],
                       search |-> selected[k]]
                 ELSE [page_size |-> page_size, search |-> selected[k]]
             all == [k \in 1..Len(selected) |-> params(k)]
             bad == {k \in 1..Len(selected) : Resp(env, k) \in {"transport", "ok_nonjson"}}
         IN  IF bad # {}
             THEN LET k == CHOOSE x \in bad : \A y \in bad : x <= y
                  IN  [kind |-> "raise",
                       exc |-> IF Resp(env, k) = "transport"
                               THEN "TransportError" ELSE "JSONDecodeError",
                       body |-> "none", requests |-> k,
                       searches |-> SubSeq(all, 1, k), search_terms |-> search_terms]
             ELSE [kind |-> "return",
                   data |-> [suggestions |->
                                 unique_products(extend_all(env, Len(selected)), {}, 0),
                             suggested_categories |-> categories,
                             recipient |-> recipient],
                   requests |-> Len(selected),
                   searches |-> all, search_terms |-> search_terms]

\* executor_map[tool_name](arguments)
Handler(name, args, tok, env) ==
    CASE name = "find_product_by_name" -> _find_product_by_name(args, env)
      [] name = "check_stock_by_name" -> _check_stock_by_name(args, env)
      [] name = "find_address_by_label" -> _find_address_by_label(args, tok, env)
      [] name = "compare_products" -> _compare_products(args, env)
      [] name = "get_gift_suggestions" -> _get_gift_suggestions(args, env)
      [] OTHER -> _simple_handler(name, args, tok, env)

Returned(v, n) == [kind |-> "return", value |-> v, requests |-> n]
Raised(e, n) == [kind |-> "raise", exc |-> e, requests |-> n]

\* EcommerceToolExecutor.execute_tool
execute_tool(name, args, tok, env) ==
    IF name \notin ToolNames
    THEN Returned([error |-> "Unknown tool: " \o name], 0)
    ELSE LET h == Handler(name, args, tok, env)
         IN  IF h.kind = "return"
             THEN Returned([success |-> TRUE, data |-> h.data], h.requests)
             ELSE IF h.exc = "HTTPStatusError"
             \* {"success": False, "error": str(e.response.json().get("message", str(e)))}
             THEN CASE h.body = "err_msg" ->
                         Returned([success |-> FALSE, error |-> "message"], h.requests)
                    [] h.body = "err_nomsg" ->
                         Returned([success |-> FALSE, error |-> "HTTPStatusError"], h.requests)
                    [] OTHER -> Raised("JSONDecodeError", h.requests)
             ELSE Returned([success |-> FALSE, error |-> h.exc], h.requests)

(***************************************************************************)
(* Credentials, sessions and the message log                               *)
(***************************************************************************)
NoCustomer == 0
Customers == {1, 2}
NoId == 0
SessionIds == 1..MaxSessions
Turns == {1, 2}

\* an Authorization header: the bearer token, whether decode_token accepts
\* it (signature and expiry), and the sub and type claims of its payload; sub
\* is 0 when the claim is missing, numeric tells whether int(sub) succeeds
NoCred ==
    [present |-> FALSE, token |-> NoToken, decodes |-> FALSE, sub |-> 0,
     numeric |-> FALSE, type |-> "none"]
Credentials ==
    {NoCred,
     [present |-> TRUE, token |-> "tokA", decodes |-> TRUE, sub |-> 1,
      numeric |-> TRUE, type |-> "customer"],
     [present |-> TRUE, token |-> "tokB", decodes |-> TRUE, sub |-> 2,
      numeric |-> TRUE, type |-> "customer"],
     [present |-> TRUE, token |-> "tokA", decodes |-> FALSE, sub |-> 1,
      numeric |-> TRUE, type |-> "customer"]}

\* more credentials that get_optional_customer_id turns down: an admin's
\* token, a payload without sub, a sub that is not a number
RejectedCredentials ==
    {[present |-> TRUE, token |-> "tokC", decodes |-> TRUE, sub |-> 1,
      numeric |-> TRUE, type |-> "admin"],
     [present |-> TRUE, token |-> "tokD", decodes |-> TRUE, sub |-> 0,
      numeric |-> FALSE, type |-> "customer"],
     [present |-> TRUE, token |-> "tokE", decodes |-> TRUE, sub |-> 1,
      numeric |-> FALSE, type |-> "customer"]}

get_optional_customer_id_keeps_token(cred) ==
    IF ~cred.present THEN [cust |-> NoCustomer, tok |-> NoToken]
    ELSE IF ~cred.decodes THEN [cust |-> NoCustomer, tok |-> NoToken]
    ELSE IF cred.sub = 0 \/ cred.type # "customer" \/ ~cred.numeric
    THEN [cust |-> NoCustomer, tok |-> cred.token]
    ELSE [cust |-> cred.sub, tok |-> cred.token]

\* get_optional_customer_id: (customer_id, auth_token), both None for a guest
get_optional_customer_id(cred) ==
    IF ~cred.present THEN [cust |-> NoCustomer, tok |-> NoToken]
    ELSE IF ~cred.decodes THEN [cust |-> NoCustomer, tok |-> NoToken]
    ELSE IF cred.sub = 0 \/ cred.type # "customer" THEN [cust |-> NoCustomer, tok |-> NoToken]
    ELSE IF ~cred.numeric THEN [cust |-> NoCustomer, tok |-> NoToken]   \* ValueError
    ELSE [cust |-> cred.sub, tok |-> cred.token]

NoText == "none"

NoCount == -1
NoUsage == [present |-> FALSE, p |-> NoCount, c |-> NoCount, t |-> NoCount]
FullUsage == [present |-> TRUE, p |-> 2, c |-> 1, t |-> 3]
Usages == {NoUsage, [present |-> TRUE, p |-> NoCount, c |-> 1, t |-> 1], FullUsage}

\* Python's `x or 0`
OrZero(x) == IF x = NoCount \/ x = 0 THEN 0 ELSE x

ZeroUsage == [prompt_tokens |-> 0, completion_tokens |-> 0, total_tokens |-> 0]

Accumulate_overwrite(total, u) ==
    IF u.present
    THEN [prompt_tokens |-> OrZero(u.p), completion_tokens |-> OrZero(u.c),
          total_tokens |-> OrZero(u.t)]
    ELSE total

\* if response.usage_metadata: total_token_usage[...] += ... or 0
Accumulate(total, u) ==
    IF u.present
    THEN [prompt_tokens |-> total.prompt_tokens + OrZero(u.p),
          completion_tokens |-> total.completion_tokens + OrZero(u.c),
          total_tokens |-> total.total_tokens + OrZero(u.t)]
    ELSE total

VARIABLES
    sessions,     \* table chat_session: identifier -> owning customer
    clock,        \* number of identifiers generated so far
    messages,     \* table chat_details, in insertion order
    nextSeq,      \* the autoincrement counter of chat_id_sequence
    pc,           \* where each turn is in chat()
    req,          \* the request of each turn: message, session_id, customer_id, auth_token
    sess,         \* the session each turn resolved
    contents,     \* current_contents
    iteration,    \* the loop variable of _generate_with_tools
    resp,         \* the function calls of the response being processed
    parts,        \* function_response_parts
    results,      \* all_tool_results
    usage,        \* total_token_usage
    client,       \* the turn's httpx client: "none", "open" or "closed"
    out,          \* what the turn gave its caller
    hist,         \* observations of each turn (not program state)
    world,        \* what the collaborators may still do: the number of
                  \* tool-requesting responses and of failures left, the
                  \* sets the user texts, the model's usage records, answer
                  \* texts and function-call lists are drawn from, and
                  \* whether two calls can observe the same stamp,
                  \* whether the turns are tasks of one event loop, and
                  \* whether the requests also come with the credentials of
                  \* RejectedCredentials (hist then keeps the credential)
    tool,         \* a call of one function on its own: inputs and result
    reply         \* the last answer of a session endpoint

vars == <<sessions, clock, messages, nextSeq, pc, req, sess, contents, iteration,
          resp, parts, results, usage, client, out, hist, world, tool, reply>>

store == <<sessions, clock, messages, nextSeq>>
loop == <<contents, iteration, resp, parts, results, usage>>

(***************************************************************************)
(* ChatHistoryService                                                      *)
(***************************************************************************)
\* generate_chat_session_id: the identifier is a digest of the stamp the call
\* observes, that is of utcnow().isoformat() and of id() of that string; clk
\* is the number of stamps observed before this one.  Calls that observe
\* different stamps get different identifiers, calls that observe the same
\* stamp get the same identifier.
generate_chat_session_id(clk) == clk + 1

\* create_session: the table after the insert; chat_session_id is the primary
\* key, so the commit of a row whose identifier exists raises IntegrityError
create_session(ss, clk, customer_id) ==
    LET session_id == generate_chat_session_id(clk)
    IN  IF session_id \in DOMAIN ss
        THEN [raised |-> TRUE, sessions |-> ss, clock |-> clk + 1, id |-> NoId]
        ELSE [raised |-> FALSE,
              sessions |-> [i \in DOMAIN ss \cup {session_id} |->
                               IF i \in DOMAIN ss THEN ss[i] ELSE customer_id],
              clock |-> clk + 1,
              id |-> session_id]

\* get_session: the row or None
get_session(ss, session_id) == IF session_id \in DOMAIN ss THEN session_id ELSE NoId

get_or_create_session_always_creates(ss, clk, session_id, customer_id) ==
    create_session(ss, clk, customer_id)

get_or_create_session_adopts(ss, clk, session_id, customer_id) ==
    IF session_id # NoId /\ get_session(ss, session_id) # NoId
    THEN [raised |-> FALSE, sessions |-> [ss EXCEPT ![session_id] = customer_id],
          clock |-> clk, id |-> session_id]
    ELSE create_session(ss, clk, customer_id)

get_or_create_session(ss, clk, session_id, customer_id) ==
    IF session_id # NoId /\ get_session(ss, session_id) # NoId
    THEN [raised |-> FALSE, sessions |-> ss, clock |-> clk, id |-> session_id]
    ELSE create_session(ss, clk, customer_id)

add_message_without_usage(seq, session_id, role, content, token_usage) ==
    [seq |-> seq, sid |-> session_id, role |-> role, content |-> content,
     usage |-> [absent |-> TRUE]]

\* add_message: the row that is inserted
add_message(seq, session_id, role, content, token_usage) ==
    [seq |-> seq, sid |-> session_id, role |-> role, content |-> content,
     usage |-> token_usage]

ForeignKey_unchecked(ss, session_id) == TRUE

\* chat_details.chat_session_id REFERENCES chat_session: the commit of a row
\* succeeds when its session exists
ForeignKey(ss, session_id) == session_id \in DOMAIN ss

\* the role="user" rows carry no usage record
NoUsageRecord == [absent |-> TRUE]

RECURSIVE FilterSession(_, _)
FilterSession(msgs, sid) ==
    IF msgs = <<>> THEN <<>>
    ELSE IF Head(msgs).sid = sid
         THEN <<Head(msgs)>> \o FilterSession(Tail(msgs), sid)
         ELSE FilterSession(Tail(msgs), sid)

\* get_session_history without limit: the session's rows, oldest first
\* (order_by created_at: add_message stamps a row when it inserts it, and the
\* table is kept here in the order of the inserts)
get_session_history(msgs, sid) == FilterSession(msgs, sid)

num_messages == 20

get_recent_context_oldest(msgs, sid) ==
    LET h == get_session_history(msgs, sid)
        recent == IF Len(h) > num_messages THEN SubSeq(h, 1, num_messages) ELSE h
    IN  [i \in 1..Len(recent) |-> [role |-> recent[i].role, content |-> recent[i].content]]

\* get_recent_context(session_id, num_messages=20)
get_recent_context(msgs, sid) ==
    LET h == get_session_history(msgs, sid)
        recent == IF Len(h) > num_messages
                  THEN SubSeq(h, Len(h) - num_messages + 1, Len(h)) ELSE h
    IN  [i \in 1..Len(recent) |-> [role |-> recent[i].role, content |-> recent[i].content]]

DropSession_every(msgs, sid) == <<>>

\* delete_session: the tables after the two deletes
RECURSIVE DropSession(_, _)
DropSession(msgs, sid) ==
    IF msgs = <<>> THEN <<>>
    ELSE IF Head(msgs).sid = sid THEN DropSession(Tail(msgs), sid)
         ELSE <<Head(msgs)>> \o DropSession(Tail(msgs), sid)

delete_session_unchecked(ss, msgs, sid) ==
    [deleted |-> TRUE,
     sessions |-> [i \in DOMAIN ss \ {sid} |-> ss[i]],
     messages |-> DropSession(msgs, sid)]

delete_session(ss, msgs, sid) ==
    IF get_session(ss, sid) = NoId
    THEN [deleted |-> FALSE, sessions |-> ss, messages |-> msgs]
    ELSE [deleted |-> TRUE,
          sessions |-> [i \in DOMAIN ss \ {sid} |-> ss[i]],
          messages |-> DropSession(msgs, sid)]

(***************************************************************************)
(* ChatbotService                                                          *)
(***************************************************************************)
max_iterations == 5

_build_contents_newest_first(history) ==
    [i \in 1..Len(history) |->
        [role |-> history[Len(history) + 1 - i].role,
         text |-> history[Len(history) + 1 - i].content]]

\* _build_contents: one text content per history message, roles unchanged
_build_contents(history) ==
    [i \in 1..Len(history) |-> [role |-> history[i].role, text |-> history[i].content]]

\* what the model can request in one response
CallSearch == [name |-> "search_products", args |-> EmptyArgs]
CallCart == [name |-> "get_cart", args |-> EmptyArgs]
CallAdd == [name |-> "add_to_cart", args |-> [k \in {"product_id"} |-> IntVal]]
CallLists == {<<CallSearch>>, <<CallAdd, CallCart>>}
AnswerTexts == {NoText, "answer"}

\* the collaborator's behaviour during a tool call of a turn
OkEnv == Env("ok", "ok", 1)
FaultEnvs == {Env(r, "ok", 1) : r \in {"err_msg", "err_nonjson", "transport"}}

\* response.text or ""
TextOrEmpty(t) == IF t = NoText THEN "" ELSE t

\* json.dumps(result)
json_dumps(result) == [json |-> result]

\* dict.get(key, default)
Get(d, k, default) == IF k \in DOMAIN d THEN d[k] ELSE default

\* f"https://picsum.photos/seed/{product_id}/200/200"
picsum(product_id) == "https://picsum.photos/seed/" \o ToString(product_id) \o "/200/200"

\* ChatbotService._add_product_image.  A product identifier is a primary key
\* of tbl_product, a positive integer, so product.get("product_id") is truthy
\* exactly when the key is there.
_add_product_image(product) ==
    IF "product_id" \in DOMAIN product /\ "image_url" \notin DOMAIN product
    THEN [k \in DOMAIN product \cup {"image_url"} |->
             IF k = "image_url" THEN picsum(product["product_id"]) ELSE product[k]]
    ELSE product

\* products.append(self._add_product_image(item)) for each item of a list
WithImages(items) == [i \in 1..Len(items) |-> _add_product_image(items[i])]

\* the products one tool result contributes (the if/elif chain of the first
\* loop of _extract_products_from_results)
ProductsOf(result) ==
    LET data == Get(Get(result, "result", <<>>), "data", <<>>)
        WithId(item) == "product_id" \in DOMAIN item
    IN  IF "items" \in DOMAIN data
        THEN WithImages(SelectSeq(data["items"], WithId))
        ELSE IF "product_id" \in DOMAIN data
        THEN <<_add_product_image(data)>>
        ELSE IF "suggestions" \in DOMAIN data
        THEN WithImages(data["suggestions"])
        ELSE IF "products" \in DOMAIN data
        THEN WithImages(data["products"])
        ELSE <<>>

RECURSIVE AllProducts(_)
AllProducts(tool_results) ==
    IF tool_results = <<>> THEN <<>>
    ELSE ProductsOf(Head(tool_results)) \o AllProducts(Tail(tool_results))

RECURSIVE Unique_last_seen(_, _)
Unique_last_seen(products, seen) ==
    IF products = <<>> THEN <<>>
    ELSE LET p == products[Len(products)]
             rest == SubSeq(products, 1, Len(products) - 1)
         IN  IF "product_id" \in DOMAIN p /\ p["product_id"] \notin seen
             THEN Unique_last_seen(rest, seen \cup {p["product_id"]})
                      \o <<_add_product_image(p)>>
             ELSE Unique_last_seen(rest, seen)

\* the second loop of _extract_products_from_results: seen, unique_products
RECURSIVE Unique(_, _)
Unique(products, seen) ==
    IF products = <<>> THEN <<>>
    ELSE LET p == Head(products)
         IN  IF "product_id" \in DOMAIN p /\ p["product_id"] \notin seen
             THEN <<_add_product_image(p)>>
                      \o Unique(Tail(products), seen \cup {p["product_id"]})
             ELSE Unique(Tail(products), seen)

\* ChatbotService._extract_products_from_results: Optional[List]; none is the
\* None it returns for an empty list
_extract_products_from_results(tool_results) ==
    LET unique == Unique(AllProducts(tool_results), {})
    IN  [none |-> unique = <<>>, list |-> unique]

NoHist ==
    [withTools |-> 0, withoutTools |-> 0, toolResponses |-> 0,
     seen |-> [u \in Usages |-> 0], requested |-> <<>>, finalText |-> NoText,
     closes |-> 0, execClosed |-> FALSE, execLate |-> FALSE,
     userSeq |-> 0, cred |-> NoCred]

NoReq == [msg |-> NoText, sid |-> NoId, cust |-> NoCustomer, tok |-> NoToken]
NoOut == [kind |-> "none"]
NoTool == [kind |-> "none"]
NoReply == [op |-> "none"]

\* no turn has started
InitTurns(w) ==
    /\ pc = [t \in Turns |-> "idle"]
    /\ req = [t \in Turns |-> NoReq]
    /\ sess = [t \in Turns |-> NoId]
    /\ contents = [t \in Turns |-> <<>>]
    /\ iteration = [t \in Turns |-> 0]
    /\ resp = [t \in Turns |-> <<>>]
    /\ parts = [t \in Turns |-> <<>>]
    /\ results = [t \in Turns |-> <<>>]
    /\ usage = [t \in Turns |-> ZeroUsage]
    /\ client = [t \in Turns |-> "none"]
    /\ out = [t \in Turns |-> NoOut]
    /\ hist = [t \in Turns |-> NoHist]
    /\ reply = NoReply
    /\ world = w

\* empty tables
InitWith(w) ==
    /\ sessions = [i \in {} |-> NoCustomer]
    /\ clock = 0
    /\ messages = <<>>
    /\ nextSeq = 1
    /\ InitTurns(w)

\* concurrent turns: a model that answers at once and always reports its
\* usage and a text; calls of generate_chat_session_id observe successive
\* stamps
Init ==
    /\ InitWith([rounds |-> 0, faults |-> 0,
                 usages |-> {FullUsage}, answers |-> {"answer"},
                 texts |-> {"hi"}, calls |-> {}, same |-> FALSE, one_loop |-> FALSE,
                 creds |-> FALSE])
    /\ tool = NoTool

\* one turn on its own, with a model that can ask for tools in every round
InitLoop ==
    /\ InitWith([rounds |-> MaxToolRounds, faults |-> MaxFaults,
                 usages |-> Usages, answers |-> AnswerTexts,
                 texts |-> {"cart"}, calls |-> CallLists, same |-> FALSE, one_loop |-> FALSE,
                 creds |-> FALSE])
    /\ tool = NoTool

InLoop_inclusive(it) == it <= max_iterations

InLoop_unbounded(it) == TRUE

\* for iteration in range(max_iterations): the model is called with the tools
InLoop(it) == it < max_iterations

Closes_on_return_only(exit) == IF exit \in {"return", "cap"} THEN 1 ELSE 0

\* finally: await tool_executor.close() -- the number of close() calls made
\* when the try block is left by a return, by the cap's return, or by an
\* exception of the model or of a tool
Closes(exit) == 1

LeaveWith(t, exit, h) ==
    /\ client' = [client EXCEPT ![t] = IF Closes(exit) > 0 THEN "closed" ELSE @]
    /\ hist' = [h EXCEPT ![t].closes = @ + Closes(exit)]

\* the stamps a call of generate_chat_session_id can observe: a new one, or
\* the latest one again when two calls fall on the same instant and the
\* string is allocated at the same address
Stamps == {clock} \cup (IF world.same /\ clock > 0 THEN {clock - 1} ELSE {})

\* response = self.client.models.generate_content(...) is a synchronous call
\* inside a coroutine: a turn at "model" is inside that call, and the event
\* loop that runs it runs no other task until the call returns or raises.
\* (execute_tool and the store's operations are awaited.)
Blocked(t) == world.one_loop /\ \E u \in Turns \ {t} : pc[u] = "model"

(***************************************************************************)
(* A chat turn: send_message -> ChatbotService.chat                        *)
(***************************************************************************)
\* send_message: get_optional_customer_id, ChatbotService(...), and chat() up
\* to the end of session = await get_or_create_session(session_id, customer_id)
StartTurn(t) ==
    /\ pc[t] = "idle"
    /\ ~Blocked(t)
    /\ \E text \in world.texts, sid \in {NoId} \cup SessionIds,
          cred \in Credentials \cup (IF world.creds THEN RejectedCredentials ELSE {}),
          clk \in Stamps :
         LET who == get_optional_customer_id(cred)
             r == get_or_create_session(sessions, clk, sid, who.cust)
         IN  /\ r.clock <= MaxSessions
             /\ req' = [req EXCEPT ![t] = [msg |-> text, sid |-> sid,
                                            cust |-> who.cust, tok |-> who.tok]]
             /\ hist' = [hist EXCEPT ![t].cred = IF world.creds THEN cred ELSE NoCred]
             /\ sessions' = r.sessions
             /\ clock' = IF r.clock > clock THEN r.clock ELSE clock
             /\ IF r.raised
                THEN /\ pc' = [pc EXCEPT ![t] = "failed"]
                     /\ out' = [out EXCEPT ![t] = [kind |-> "error", exc |-> "IntegrityError"]]
                     /\ sess' = sess
                ELSE /\ pc' = [pc EXCEPT ![t] = "store_user"]
                     /\ out' = out
                     /\ sess' = [sess EXCEPT ![t] = r.id]
    /\ UNCHANGED <<messages, nextSeq, loop, client, world, tool, reply>>

\* await add_message(role="user"): the commit fails on the foreign key when
\* the session is gone.  chat() does not read its session_id parameter after
\* get_or_create_session; the model forgets it here.
StoreUserMessage(t) ==
    /\ pc[t] = "store_user"
    /\ ~Blocked(t)
    /\ req' = [req EXCEPT ![t].sid = NoId]
    /\ IF ForeignKey(sessions, sess[t])
       THEN /\ messages' = Append(messages,
                    add_message(nextSeq, sess[t], "user", req[t].msg, NoUsageRecord))
            /\ nextSeq' = nextSeq + 1
            /\ pc' = [pc EXCEPT ![t] = "context"]
            /\ hist' = [hist EXCEPT ![t].userSeq = nextSeq]
            /\ out' = out
       ELSE /\ pc' = [pc EXCEPT ![t] = "failed"]
            /\ out' = [out EXCEPT ![t] = [kind |-> "error", exc |-> "IntegrityError"]]
            /\ UNCHANGED <<messages, nextSeq, hist>>
    /\ UNCHANGED <<sessions, clock, sess, loop, client, world, tool, reply>>

\* history = await get_recent_context(...); contents = _build_contents(history);
\* _generate_with_tools up to the try: statement
BuildContext(t) ==
    /\ pc[t] = "context"
    /\ ~Blocked(t)
    /\ contents' = [contents EXCEPT ![t] = _build_contents(get_recent_context(messages, sess[t]))]
    /\ iteration' = [iteration EXCEPT ![t] = 0]
    /\ resp' = [resp EXCEPT ![t] = <<>>]
    /\ parts' = [parts EXCEPT ![t] = <<>>]
    /\ results' = [results EXCEPT ![t] = <<>>]
    /\ usage' = [usage EXCEPT ![t] = ZeroUsage]
    /\ client' = [client EXCEPT ![t] = "open"]
    /\ pc' = [pc EXCEPT ![t] = "model"]
    /\ UNCHANGED <<store, req, sess, out, hist, world, tool, reply>>

Called(h, t, withTools, u) ==
    [h EXCEPT ![t].withTools = IF withTools THEN @ + 1 ELSE @,
              ![t].withoutTools = IF withTools THEN @ ELSE @ + 1,
              ![t].seen[u] = @ + 1]

\* generate_content raises (with or without tools attached)
ModelRaises(t) ==
    /\ pc[t] = "model"
    /\ ~Blocked(t)
    /\ world.faults > 0
    /\ world' = [world EXCEPT !.faults = @ - 1]
    /\ LeaveWith(t, "model_error",
                 [hist EXCEPT ![t].withTools = IF InLoop(iteration[t]) THEN @ + 1 ELSE @,
                              ![t].withoutTools = IF InLoop(iteration[t]) THEN @ ELSE @ + 1])
    /\ pc' = [pc EXCEPT ![t] = "failed"]
    /\ out' = [out EXCEPT ![t] = [kind |-> "error", exc |-> "ModelError"]]
    /\ UNCHANGED <<store, req, sess, loop, tool, reply>>

\* a response without function calls inside the loop: return response.text or ""
ModelAnswers(t) ==
    /\ pc[t] = "model"
    /\ ~Blocked(t)
    /\ InLoop(iteration[t])
    /\ \E text \in world.answers, u \in world.usages :
         /\ usage' = [usage EXCEPT ![t] = Accumulate(@, u)]
         /\ out' = [out EXCEPT ![t] = [kind |-> "generated", text |-> TextOrEmpty(text)]]
         /\ LeaveWith(t, "return", Called(hist, t, TRUE, u))
    /\ pc' = [pc EXCEPT ![t] = "persist"]
    /\ UNCHANGED <<store, req, sess, contents, iteration, resp, parts, results,
                   world, tool, reply>>

\* a response with function calls inside the loop
ModelRequestsTools(t) ==
    /\ pc[t] = "model"
    /\ ~Blocked(t)
    /\ InLoop(iteration[t])
    /\ world.rounds > 0
    /\ world' = [world EXCEPT !.rounds = @ - 1]
    /\ \E calls \in world.calls, u \in world.usages :
         /\ usage' = [usage EXCEPT ![t] = Accumulate(@, u)]
         /\ resp' = [resp EXCEPT ![t] = calls]
         /\ hist' = [Called(hist, t, TRUE, u) EXCEPT
                        ![t].toolResponses = @ + 1,
                        ![t].requested = @ \o calls]
    /\ parts' = [parts EXCEPT ![t] = <<>>]
    /\ pc' = [pc EXCEPT ![t] = "tools"]
    /\ UNCHANGED <<store, req, sess, contents, iteration, results, client, out,
                   tool, reply>>

NextCall_reversed(calls, done) == calls[Len(calls) - done]

\* for func_call in response.function_calls: the call processed after `done`
\* calls of the response have been processed
NextCall(calls, done) == calls[done + 1]

\* result = await tool_executor.execute_tool(tool_name, arguments), the two
\* appends, and after the last call of the response the two content appends
ExecuteTool(t) ==
    /\ pc[t] = "tools"
    /\ ~Blocked(t)
    /\ Len(parts[t]) < Len(resp[t])
    /\ LET call == NextCall(resp[t], Len(parts[t]))
           last == Len(parts[t]) + 1 = Len(resp[t])
       IN  \E env \in {OkEnv} \cup FaultEnvs :
             /\ env # OkEnv => world.faults > 0
             /\ world' = IF env = OkEnv THEN world ELSE [world EXCEPT !.faults = @ - 1]
             /\ LET r == execute_tool(call.name, call.args, req[t].tok, env)
                    h == [hist EXCEPT
                            ![t].execClosed = @ \/ client[t] # "open",
                            ![t].execLate = @ \/ hist[t].withTools > max_iterations
                                              \/ hist[t].withoutTools > 0]
                IN  IF r.kind = "raise"
                    THEN /\ LeaveWith(t, "tool_error", h)
                         /\ pc' = [pc EXCEPT ![t] = "failed"]
                         /\ out' = [out EXCEPT ![t] = [kind |-> "error", exc |-> r.exc]]
                         /\ UNCHANGED loop
                    ELSE /\ results' = [results EXCEPT ![t] = Append(@,
                                [tool |-> call.name, arguments |-> call.args,
                                 result |-> r.value])]
                         /\ LET ps == Append(parts[t],
                                        [name |-> call.name, response |-> json_dumps(r.value)])
                            IN  IF last
                                THEN /\ contents' = [contents EXCEPT ![t] =
                                          @ \o <<[role |-> "model", calls |-> resp[t]],
                                                 [role |-> "tool", parts |-> ps]>>]
                                     /\ iteration' = [iteration EXCEPT ![t] = @ + 1]
                                     /\ parts' = [parts EXCEPT ![t] = ps]
                                     /\ pc' = [pc EXCEPT ![t] = "model"]
                                ELSE /\ parts' = [parts EXCEPT ![t] = ps]
                                     /\ UNCHANGED <<contents, iteration, pc>>
                         /\ hist' = h
                         /\ UNCHANGED <<client, out, resp, usage>>
    /\ UNCHANGED <<store, req, sess, tool, reply>>

\* after the loop: one call without tools; return response.text or ""
ModelFinal(t) ==
    /\ pc[t] = "model"
    /\ ~Blocked(t)
    /\ ~InLoop(iteration[t])
    /\ \E text \in world.answers, u \in world.usages :
         /\ usage' = [usage EXCEPT ![t] = Accumulate(@, u)]
         /\ out' = [out EXCEPT ![t] = [kind |-> "generated", text |-> TextOrEmpty(text)]]
         /\ LeaveWith(t, "cap", [Called(hist, t, FALSE, u) EXCEPT ![t].finalText = TextOrEmpty(text)])
    /\ pc' = [pc EXCEPT ![t] = "persist"]
    /\ UNCHANGED <<store, req, sess, contents, iteration, resp, parts, results,
                   world, tool, reply>>

\* await add_message(role="model", token_usage=token_usage) and the return
PersistResponse(t) ==
    /\ pc[t] = "persist"
    /\ ~Blocked(t)
    /\ IF ForeignKey(sessions, sess[t])
       THEN /\ messages' = Append(messages,
                    add_message(nextSeq, sess[t], "model", out[t].text, usage[t]))
            /\ nextSeq' = nextSeq + 1
            /\ pc' = [pc EXCEPT ![t] = "done"]
            /\ out' = [out EXCEPT ![t] =
                         [kind |-> "response", session_id |-> sess[t],
                          response |-> out[t].text, tool_calls |-> results[t],
                          token_usage |-> usage[t]]]
       ELSE /\ pc' = [pc EXCEPT ![t] = "failed"]
            /\ out' = [out EXCEPT ![t] = [kind |-> "error", exc |-> "IntegrityError"]]
            /\ UNCHANGED <<messages, nextSeq>>
    /\ UNCHANGED <<sessions, clock, req, sess, loop, client, hist, world, tool, reply>>

(***************************************************************************)
(* The session endpoints                                                   *)
(***************************************************************************)
DeleteReply(sid, customer_id, status) ==
    [op |-> "delete", session_id |-> sid, customer_id |-> customer_id,
     status |-> status]

not_authorized_owner_only(customer_id, owner) ==
    owner # NoCustomer /\ owner # customer_id

\* if customer_id and session.customer_id and session.customer_id != customer_id
not_authorized(customer_id, owner) ==
    customer_id # NoCustomer /\ owner # NoCustomer /\ owner # customer_id

\* DELETE /chat/sessions/{session_id}
DeleteSession ==
    /\ ~Blocked(0)
    /\ \E sid \in SessionIds, cred \in Credentials :
         LET customer_id == get_optional_customer_id(cred).cust
         IN  IF get_session(sessions, sid) = NoId
             THEN /\ reply' = DeleteReply(sid, customer_id, 404)
                  /\ UNCHANGED <<sessions, messages>>
             ELSE IF not_authorized(customer_id, sessions[sid])
             THEN /\ reply' = DeleteReply(sid, customer_id, 403)
                  /\ UNCHANGED <<sessions, messages>>
             ELSE LET r == delete_session(sessions, messages, sid)
                  IN  /\ sessions' = r.sessions
                      /\ messages' = r.messages
                      /\ reply' = DeleteReply(sid, customer_id,
                                              IF r.deleted THEN 200 ELSE 404)
    /\ UNCHANGED <<clock, nextSeq, pc, req, sess, loop, client, out, hist,
                   world, tool>>

\* ChatbotService.get_session_history: the session with its messages, or
\* {"error": "Session not found"}
ChatbotService_get_session_history(ss, msgs, sid) ==
    IF get_session(ss, sid) = NoId
    THEN [error |-> "Session not found"]
    ELSE LET h == get_session_history(msgs, sid)
         IN  [session_id |-> sid, customer_id |-> ss[sid],
              messages |-> [i \in 1..Len(h) |->
                              [role |-> h[i].role, content |-> h[i].content,
                               token_usage |-> h[i].usage]]]

\* GET /chat/sessions/{session_id}
GetSessionHistory ==
    /\ ~Blocked(0)
    /\ \E sid \in SessionIds :
         LET result == ChatbotService_get_session_history(sessions, messages, sid)
         IN  reply' = [op |-> "history", session_id |-> sid,
                       status |-> IF "error" \in DOMAIN result THEN 404 ELSE 200,
                       result |-> result]
    /\ UNCHANGED <<store, pc, req, sess, loop, client, out, hist, world, tool>>

\* POST /chat/sessions: an exception of create_session leaves the endpoint
CreateNewSession ==
    /\ ~Blocked(0)
    /\ \E cred \in Credentials, clk \in Stamps :
         LET customer_id == get_optional_customer_id(cred).cust
             r == create_session(sessions, clk, customer_id)
         IN  /\ r.clock <= MaxSessions
             /\ sessions' = r.sessions
             /\ clock' = IF r.clock > clock THEN r.clock ELSE clock
             /\ reply' = IF r.raised
                         THEN [op |-> "create", customer_id |-> customer_id,
                               status |-> 500, exc |-> "IntegrityError"]
                         ELSE [op |-> "create", customer_id |-> customer_id,
                               status |-> 201, session_id |-> r.id]
    /\ UNCHANGED <<messages, nextSeq, pc, req, sess, loop, client, out, hist,
                   world, tool>>

\* the steps of a turn whose model answers at once
PlainTurn(t) ==
    \/ StartTurn(t)
    \/ StoreUserMessage(t)
    \/ BuildContext(t)
    \/ ModelAnswers(t)
    \/ PersistResponse(t)

\* the steps of a turn whose model stops asking for tools before the cap
ShortTurn(t) ==
    \/ PlainTurn(t)
    \/ ModelRaises(t)
    \/ ModelRequestsTools(t)
    \/ ExecuteTool(t)

Turn(t) ==
    \/ ShortTurn(t)
    \/ ModelFinal(t)

\* concurrent turns and session deletion on one store; the tool loop of a
\* turn touches no state another turn or the store can see, it is followed
\* in SpecLoop
Next ==
    \/ \E t \in Turns : PlainTurn(t)
    \/ DeleteSession

Spec == Init /\ [][Next]_vars

\* a single turn
NextLoop == Turn(1)

SpecLoop == InitLoop /\ [][NextLoop]_vars

\* a single turn with a model that asks for tools in every response that
\* carries the tools, for as long as the model's horizon (MaxToolRounds
\* responses) allows; every call returns or raises and the task is scheduled
InitLive ==
    /\ InitWith([rounds |-> MaxToolRounds, faults |-> MaxFaults,
                 usages |-> {FullUsage}, answers |-> {"answer"},
                 texts |-> {"cart"}, calls |-> CallLists,
                 same |-> FALSE, one_loop |-> FALSE,
                 creds |-> FALSE])
    /\ tool = NoTool

NextLive ==
    \/ StartTurn(1)
    \/ StoreUserMessage(1)
    \/ BuildContext(1)
    \/ ModelRaises(1)
    \/ ModelRequestsTools(1)
    \/ ExecuteTool(1)
    \/ ModelFinal(1)
    \/ PersistResponse(1)

SpecLive == InitLive /\ [][NextLive]_vars /\ WF_vars(NextLive)

\* one turn under each kind of credential, with a model that asks for tools;
\* hist keeps the credential of the request
InitIdentity ==
    /\ InitWith([rounds |-> SharedToolRounds + 1, faults |-> 0,
                 usages |-> {FullUsage}, answers |-> AnswerTexts,
                 texts |-> {"cart"}, calls |-> CallLists,
                 same |-> FALSE, one_loop |-> FALSE,
                 creds |-> TRUE])
    /\ tool = NoTool

NextIdentity ==
    \/ StartTurn(1)
    \/ StoreUserMessage(1)
    \/ BuildContext(1)
    \/ ModelAnswers(1)
    \/ ModelRequestsTools(1)
    \/ ExecuteTool(1)
    \/ PersistResponse(1)

SpecIdentity == InitIdentity /\ [][NextIdentity]_vars

\* two turns served by one process, as tasks of its event loop
InitProcess ==
    /\ InitWith([rounds |-> SharedToolRounds, faults |-> MaxFaults,
                 usages |-> {FullUsage}, answers |-> {"answer"},
                 texts |-> {"hi"}, calls |-> {<<CallCart>>},
                 same |-> FALSE, one_loop |-> TRUE,
                 creds |-> FALSE])
    /\ tool = NoTool

NextProcess == \E t \in Turns : ShortTurn(t)

SpecProcess == InitProcess /\ [][NextProcess]_vars

\* the session endpoints next to a turn whose model answers at once; two
\* calls of generate_chat_session_id can observe the same stamp
InitStore ==
    /\ InitWith([rounds |-> 0, faults |-> 0,
                 usages |-> {FullUsage}, answers |-> {"answer"},
                 texts |-> {"hi"}, calls |-> {}, same |-> TRUE, one_loop |-> FALSE,
                 creds |-> FALSE])
    /\ tool = NoTool

NextStore ==
    \/ PlainTurn(1)
    \/ CreateNewSession
    \/ GetSessionHistory
    \/ DeleteSession

SpecStore == InitStore /\ [][NextStore]_vars

\* the tables after earlier turns, all answered, in two guest sessions: of
\* every four messages the fourth is of session 2, and in each session user
\* and model messages alternate
History(n) ==
    [i \in 1..n |->
        LET second == i % 4 = 0
            k == IF second THEN i \div 4 ELSE i - (i \div 4)
        IN  IF k % 2 = 1
            THEN add_message(i, IF second THEN 2 ELSE 1, "user",
                             "question " \o ToString(i), NoUsageRecord)
            ELSE add_message(i, IF second THEN 2 ELSE 1, "model",
                             "answer " \o ToString(i), ZeroUsage)]

\* a turn that starts on a history of up to MaxHistory messages
InitContext ==
    /\ \E n \in 0..MaxHistory :
          /\ messages = History(n)
          /\ nextSeq = n + 1
    /\ sessions = [i \in {1, 2} |-> NoCustomer]
    /\ clock = 2
    /\ InitTurns([rounds |-> 0, faults |-> 0, usages |-> {FullUsage},
                  answers |-> {"answer"}, texts |-> {"hi"}, calls |-> {},
                  same |-> FALSE, one_loop |-> FALSE,
                 creds |-> FALSE])
    /\ tool = NoTool

\* chat() up to the first model call
NextContext ==
    \/ StartTurn(1)
    \/ StoreUserMessage(1)
    \/ BuildContext(1)

SpecContext == InitContext /\ [][NextContext]_vars

(***************************************************************************)
(* execute_tool on its own: every tool name, with and without a token,     *)
(* against every behaviour of the collaborator                             *)
(***************************************************************************)
ArgKeys ==
    {"product_id", "category_id", "order_item_id", "voucher_code",
     "shipping_address_id", "order_id", "label", "product_ids", "recipient"}
ListLens == {1, 2, 5, 6}
ArgValues == {StrVal, IntVal} \cup {ListVal(n) : n \in ListLens}
ArgDicts == {EmptyArgs} \cup {[x \in {k} |-> v] : k \in ArgKeys, v \in ArgValues}
Envs == {Env(first, rest, items) :
            first \in RespKinds, rest \in {"ok", "err_nonjson", "transport"},
            items \in 0..MaxItems}

InitTool ==
    /\ InitWith([rounds |-> 0, faults |-> 0, usages |-> {}, answers |-> {},
                 texts |-> {}, calls |-> {}, same |-> FALSE, one_loop |-> FALSE,
                 creds |-> FALSE])
    /\ tool \in [kind : {"call"}, name : ToolNames \cup {UnknownTool}, args : ArgDicts,
                 tok : {NoToken, EmptyToken, "tokA"}, env : Envs]

\* await tool_executor.execute_tool(tool_name, arguments)
RunTool ==
    /\ tool.kind = "call"
    /\ tool' = [kind |-> "result", name |-> tool.name, args |-> tool.args,
                tok |-> tool.tok, env |-> tool.env,
                res |-> execute_tool(tool.name, tool.args, tool.tok, tool.env)]
    /\ UNCHANGED <<store, pc, req, sess, loop, client, out, hist, world, reply>>

SpecTool == InitTool /\ [][RunTool]_vars

(***************************************************************************)
(* find_address_by_label against the address lists of a customer           *)
(***************************************************************************)
Labels ==
    {<<>>,
     <<"h", "o", "m", "e">>,
     <<"H", "O", "M", "E">>,
     <<"H", "o", "m", "e", " ", "O", "f", "f", "i", "c", "e">>,
     <<"W", "o", "r", "k">>}

\* customer_address_label is a nullable column; the identifiers of a list
\* differ and are not in ascending order
Addresses(labels) ==
    [i \in 1..Len(labels) |->
        [customer_address_id |-> 7 - i, customer_address_label |-> labels[i]]]

AddressLists ==
    {Addresses(ls) : ls \in UNION {[1..n -> Labels \cup {NoLabel}] : n \in 0..MaxAddresses}}

InitAddress ==
    /\ InitWith([rounds |-> 0, faults |-> 0, usages |-> {}, answers |-> {},
                 texts |-> {}, calls |-> {}, same |-> FALSE, one_loop |-> FALSE,
                 creds |-> FALSE])
    /\ tool \in {[kind |-> "call", name |-> "find_address_by_label", args |-> a,
                  tok |-> t, env |-> [Env(f, "ok", 0) EXCEPT !.addresses = as]] :
                    a \in {EmptyArgs} \cup {[k \in {"label"} |-> Str(l)] : l \in Labels},
                    t \in {NoToken, "tokA"},
                    f \in {"ok", "err_msg"},
                    as \in AddressLists}

SpecAddress == InitAddress /\ [][RunTool]_vars

(***************************************************************************)
(* check_stock_by_name against every outcome of each stock request         *)
(***************************************************************************)
InitStock ==
    /\ InitWith([rounds |-> 0, faults |-> 0, usages |-> {}, answers |-> {},
                 texts |-> {}, calls |-> {}, same |-> FALSE, one_loop |-> FALSE,
                 creds |-> FALSE])
    /\ tool \in {[kind |-> "call", name |-> "check_stock_by_name", args |-> a,
                  tok |-> t, env |-> [Env(f, "ok", n) EXCEPT !.each = e]] :
                    a \in {EmptyArgs, [k \in {"product_name"} |-> StrVal]},
                    t \in {NoToken, "tokA"},
                    f \in {"ok", "err_msg"},
                    n \in 0..MaxItems,
                    e \in UNION {[1..m -> RespKinds] : m \in 0..MaxItems}}
    /\ Len(tool.env.each) = tool.env.items

SpecStock == InitStock /\ [][RunTool]_vars

(***************************************************************************)
(* get_gift_suggestions: recipients in and out of the table, preferences   *)
(* with and without a vague term, overlapping search results               *)
(***************************************************************************)
Page(a, b) == [i \in 1..(b - a + 1) |-> a + i - 1]
Pages == {Page(1, 0), Page(1, 6), Page(4, 9), Page(10, 14)}

Recipients == {<<"w", "i", "f", "e">>, <<"T", "e", "e", "n">>, <<"b", "o", "s", "s">>}
Preferences == {<<"r", "e", "d">>, <<"a", " ", "r", "o", "m", "a", "n", "t", "i", "c", " ", "g", "i", "f", "t">>}

GiftArgs ==
    {[k \in ks |-> CASE k = "recipient" -> Str(r)
                     [] k = "preferences" -> Str(p)
                     [] OTHER -> IntVal] :
        ks \in SUBSET {"recipient", "preferences", "budget_max"},
        r \in Recipients, p \in Preferences}

InitGift ==
    /\ InitWith([rounds |-> 0, faults |-> 0, usages |-> {}, answers |-> {},
                 texts |-> {}, calls |-> {}, same |-> FALSE, one_loop |-> FALSE,
                 creds |-> FALSE])
    /\ tool \in {[kind |-> "call", name |-> "get_gift_suggestions", args |-> a,
                  tok |-> NoToken,
                  env |-> [Env(f, "ok", 0) EXCEPT !.each = <<g>>, !.pages = <<p1, p2, p3>>]] :
                    a \in GiftArgs, f \in {"ok", "err_msg"}, g \in {"ok", "err_msg"},
                    p1 \in Pages, p2 \in Pages, p3 \in Pages}

SpecGift == InitGift /\ [][RunTool]_vars

(***************************************************************************)
(* _extract_products_from_results on its own, over tool results that hold  *)
(* up to MaxProducts product dictionaries                                  *)
(***************************************************************************)
ProductIds == {1, 2}
EmptyDict == [k \in {} |-> 0]
ProductDicts ==
    {EmptyDict, [k \in {"image_url"} |-> "cdn"]}
        \cup {[k \in {"product_id"} |-> i] : i \in ProductIds}
        \cup {[product_id |-> i, image_url |-> "cdn"] : i \in ProductIds}

\* where the executor's result holds a product: data["items"], data itself,
\* data["suggestions"], data["products"]; "none" is a failed tool call
ProductKeys == {"items", "product_id", "suggestions", "products"}
Entries ==
    [key : ProductKeys, product : ProductDicts] \cup {[key |-> "none", product |-> EmptyDict]}

\* the length of the run of entries under the key of the first one
RECURSIVE Run(_)
Run(es) ==
    IF Len(es) > 1 /\ es[2].key = es[1].key THEN 1 + Run(Tail(es)) ELSE 1

\* {"tool": ..., "arguments": ..., "result": result} (service.py, the tool loop)
ToolRecord(name, result) == [tool |-> name, result |-> result]

\* the tool results that hold the entries: consecutive entries under one list
\* key are the elements of one list
RECURSIVE Results(_)
Results(es) ==
    IF es = <<>> THEN <<>>
    ELSE LET e == Head(es)
         IN  CASE e.key = "none" ->
                    <<ToolRecord("get_cart", [success |-> FALSE, error |-> "message"])>>
                        \o Results(Tail(es))
               [] e.key = "product_id" ->
                    <<ToolRecord("get_product_details", [success |-> TRUE, data |-> e.product])>>
                        \o Results(Tail(es))
               [] OTHER ->
                    LET n == Run(es)
                        list == [i \in 1..n |-> es[i].product]
                    IN  <<ToolRecord("search_products",
                                     [success |-> TRUE, data |-> [k \in {e.key} |-> list]])>>
                            \o Results(SubSeq(es, n + 1, Len(es)))

InitExtract ==
    /\ InitWith([rounds |-> 0, faults |-> 0, usages |-> {}, answers |-> {},
                 texts |-> {}, calls |-> {}, same |-> FALSE, one_loop |-> FALSE,
                 creds |-> FALSE])
    /\ tool \in {[kind |-> "results", entries |-> es] :
                    es \in UNION {[1..n -> Entries] : n \in 0..MaxProducts}}

\* products = self._extract_products_from_results(tool_results)
ExtractProducts ==
    /\ tool.kind = "results"
    /\ tool' = [kind |-> "products", entries |-> tool.entries,
                products |-> _extract_products_from_results(Results(tool.entries))]
    /\ UNCHANGED <<store, pc, req, sess, loop, client, out, hist, world, reply>>

SpecExtract == InitExtract /\ [][ExtractProducts]_vars

(***************************************************************************)
(* Properties                                                              *)
(***************************************************************************)
Answer(t) == IF pc[t] = "done" THEN out[t].response ELSE out[t].text

\* C1: in a turn at most 5 model calls carry the tool catalog and at most one
\* carries none, so at most 6 in all; the tool-free call is made only after 5
\* tool-requesting responses; a turn that answers after 5 tool-requesting
\* responses made exactly that one tool-free call and answers with its text;
\* no tool runs after the 5th round.
C1_IterationCap ==
    \A t \in Turns :
        /\ hist[t].withTools <= 5
        /\ hist[t].withoutTools <= 1
        /\ hist[t].withTools + hist[t].withoutTools <= 6
        /\ ~hist[t].execLate
        /\ hist[t].withoutTools = 1 => hist[t].toolResponses = 5
        /\ (pc[t] \in {"persist", "done"} /\ hist[t].toolResponses = 5)
              => /\ hist[t].withoutTools = 1
                 /\ Answer(t) = hist[t].finalText

C1_Witness ==
    \E t \in Turns : pc[t] = "done" /\ hist[t].toolResponses = 5
                     /\ hist[t].withTools = 5 /\ hist[t].withoutTools = 1

\* what one response adds to a total: nothing without usage metadata,
\* nothing for a missing count, the count otherwise
Contribution(u, f) == IF ~u.present \/ u[f] = NoCount THEN 0 ELSE u[f]

RECURSIVE SumSeen(_, _, _)
SumSeen(seen, f, us) ==
    IF us = {} THEN 0
    ELSE LET u == CHOOSE x \in us : TRUE
         IN  seen[u] * Contribution(u, f) + SumSeen(seen, f, us \ {u})

ExpectedUsage(t) ==
    [prompt_tokens |-> SumSeen(hist[t].seen, "p", Usages),
     completion_tokens |-> SumSeen(hist[t].seen, "c", Usages),
     total_tokens |-> SumSeen(hist[t].seen, "t", Usages)]

\* C2: the token counts of a turn are the sums over every model call of the
\* turn, a response without usage metadata or with a missing count adding 0;
\* the turn returns these totals and stores them on its model message.
C2_TokenTotals ==
    \A t \in Turns :
        /\ pc[t] \in {"model", "tools", "persist"} => usage[t] = ExpectedUsage(t)
        /\ pc[t] = "done" =>
              /\ out[t].token_usage = ExpectedUsage(t)
              /\ \E i \in 1..Len(messages) :
                    /\ messages[i].sid = out[t].session_id
                    /\ messages[i].role = "model"
                    /\ messages[i].seq > hist[t].userSeq
                    /\ messages[i].usage = ExpectedUsage(t)

C2_Witness ==
    \E t \in Turns :
        /\ pc[t] = "done"
        /\ hist[t].withoutTools = 1
        /\ \A u \in Usages : hist[t].seen[u] > 0
        /\ out[t].token_usage.total_tokens > 0

\* C3: a turn whose tool loop has ended, however it ended, has closed its
\* HTTP client exactly once; while the loop runs the client is open and has
\* not been closed; no tool call is made on a client that is not open.
C3_ClientClosedOnce ==
    \A t \in Turns :
        /\ pc[t] \in {"model", "tools"} => client[t] = "open" /\ hist[t].closes = 0
        /\ (pc[t] \in {"persist", "done", "failed"} /\ client[t] # "none")
              => client[t] = "closed" /\ hist[t].closes = 1
        /\ ~hist[t].execClosed

C3_Witness ==
    \E t \in Turns : pc[t] = "failed" /\ out[t].exc = "JSONDecodeError"
                     /\ Len(results[t]) > 0 /\ hist[t].closes = 1

WellFormed(v) ==
    /\ "success" \in DOMAIN v
    /\ v.success \in BOOLEAN
    /\ v.success => "data" \in DOMAIN v
    /\ ~v.success => "error" \in DOMAIN v

\* C4: whatever the tool name and the arguments, the dict execute_tool
\* returns has a boolean success flag, with a data payload when it is true
\* and an error message when it is false.
C4_WellFormedEnvelope ==
    (tool.kind = "result" /\ tool.res.kind = "return") => WellFormed(tool.res.value)

\* C5: a turn never ends with an exception raised by a tool call: every
\* failure of a tool is turned into a record and the loop goes on.
C5_ToolFailuresAbsorbed ==
    \A t \in Turns : pc[t] = "failed" => out[t].exc \in {"ModelError", "IntegrityError"}

\* C6: after a turn has failed on a model call, the message log does not
\* hold the user message of that turn.
C6_FailedTurnNotPersisted ==
    \A t \in Turns :
        (pc[t] = "failed" /\ out[t].exc = "ModelError")
            => \A i \in 1..Len(messages) : messages[i].seq # hist[t].userSeq

C7_Tools ==
    {"get_cart", "add_to_cart", "remove_from_cart", "clear_cart", "apply_voucher",
     "remove_voucher", "get_addresses", "find_address_by_label", "checkout",
     "get_orders", "get_order_details"}

\* C7: without a bearer token, each tool that needs an identity returns
\* {success: true, data: {error: "Authentication required ..."}}, issues no
\* request and does not raise, whatever its arguments.
C7_AuthenticationRequired ==
    (tool.kind = "result" /\ tool.name \in C7_Tools /\ tool.tok \in {NoToken, EmptyToken})
        => /\ tool.res.kind = "return"
           /\ tool.res.requests = 0
           /\ DOMAIN tool.res.value = {"success", "data"}
           /\ tool.res.value.success = TRUE
           /\ DOMAIN tool.res.value.data = {"error"}
           /\ tool.res.value.data.error \in AuthRequiredMessages

C7_Witness ==
    /\ tool.kind = "result"
    /\ tool.name = "checkout"
    /\ tool.tok = NoToken
    /\ tool.args = EmptyArgs
    /\ tool.env.first = "transport"
    /\ tool.res.kind = "return"
    /\ tool.res.requests = 0

\* the function-response parts of the "tool" contents, in order
RECURSIVE ToolParts(_)
ToolParts(cs) ==
    IF cs = <<>> THEN <<>>
    ELSE IF Head(cs).role = "tool" THEN Head(cs).parts \o ToolParts(Tail(cs))
         ELSE ToolParts(Tail(cs))

\* C8: the invocation records of a turn are the calls the model requested,
\* one record per call, in the order of the responses and, within a
\* response, in the listed order; the function-response blocks given back to
\* the model are the same calls in the same order, each with its result.
C8_CallOrder ==
    \A t \in Turns :
        LET rq == hist[t].requested
            rs == results[t]
            ps == ToolParts(contents[t])
        IN  /\ Len(rs) <= Len(rq)
            /\ \A i \in 1..Len(rs) :
                  rs[i].tool = rq[i].name /\ rs[i].arguments = rq[i].args
            /\ pc[t] = "tools" => Len(rs) = Len(rq) - Len(resp[t]) + Len(parts[t])
            /\ pc[t] \in {"model", "persist", "done"} =>
                  /\ Len(rs) = Len(rq)
                  /\ Len(ps) = Len(rq)
                  /\ \A i \in 1..Len(ps) :
                        /\ ps[i].name = rq[i].name
                        /\ ps[i].response = json_dumps(rs[i].result)
            /\ pc[t] = "done" => out[t].tool_calls = rs

C8_Witness ==
    \E t \in Turns :
        /\ pc[t] = "done"
        /\ Len(results[t]) >= 3
        /\ \E i \in 1..(Len(results[t]) - 1) :
              results[t][i].tool = "add_to_cart" /\ results[t][i + 1].tool = "get_cart"
        /\ results[t][1].tool = "search_products"

\* C9: a turn that names an existing session gets that session and the
\* session table is unchanged; a turn that names no session, or one that does
\* not exist, gets a session that did not exist, which is the only change of
\* the table and is owned by the turn's customer (by nobody for a guest); the
\* turn goes on to store its message in both cases.
C9_GetOrCreate ==
    [][\A t \in Turns :
          (pc[t] = "idle" /\ pc'[t] # "idle") =>
             /\ pc'[t] = "store_user"
             /\ IF req'[t].sid \in DOMAIN sessions
                THEN sess'[t] = req'[t].sid /\ sessions' = sessions
                ELSE /\ sess'[t] \notin DOMAIN sessions
                     /\ DOMAIN sessions' = DOMAIN sessions \cup {sess'[t]}
                     /\ sessions'[sess'[t]] = req'[t].cust
                     /\ \A i \in DOMAIN sessions : sessions'[i] = sessions[i]]_vars

C9_Witness ==
    \E t \in Turns :
        /\ pc[t] = "store_user"
        /\ req[t].sid # NoId
        /\ sess[t] # req[t].sid
        /\ sess[t] \in DOMAIN sessions
        /\ Cardinality(DOMAIN sessions) = 2

\* C10: no step changes the owner of a session that exists before and after
\* the step, and no step of a chat turn removes a session.
C10_OwnerFixed ==
    [][/\ \A i \in DOMAIN sessions \cap DOMAIN sessions' : sessions'[i] = sessions[i]
       /\ (\E i \in DOMAIN sessions : i \notin DOMAIN sessions') => pc' = pc]_vars

C10_Witness ==
    \E t \in Turns :
        /\ pc[t] = "done"
        /\ sess[t] \in DOMAIN sessions
        /\ req[t].cust # NoCustomer
        /\ sessions[sess[t]] # NoCustomer
        /\ sessions[sess[t]] # req[t].cust

\* the rows of one session, in the order of the table
Rows(msgs, sid) == SelectSeq(msgs, LAMBDA m : m.sid = sid)

IsPrefix(a, b) == Len(a) <= Len(b) /\ \A i \in 1..Len(a) : b[i] = a[i]

\* C11: in every session the sequence numbers grow strictly along the log,
\* and a step that does not delete a session leaves every message the
\* session had in place, in the same position, with the same sequence
\* number, role, content and usage record: the step can only add at the end.
C11_AppendOnly ==
    [][/\ \A i, j \in 1..Len(messages') :
             (i < j /\ messages'[i].sid = messages'[j].sid)
                 => messages'[i].seq < messages'[j].seq
       /\ \A sid \in SessionIds :
             sid \in DOMAIN sessions'
                 => IsPrefix(Rows(messages, sid), Rows(messages', sid))]_vars

C11_Witness ==
    /\ Len(messages) = 4
    /\ \A i \in 1..4 : messages[i].sid = messages[1].sid
    /\ messages[2].role = "user"
    /\ messages[4].role = "model"

\* a step of the delete endpoint that can be told from the states: it gives
\* a new answer or it removes a session
DeleteStep ==
    /\ reply'.op = "delete"
    /\ reply' # reply \/ ~(DOMAIN sessions \subseteq DOMAIN sessions')

\* C12: delete_session on a session that exists returns true and gives
\* tables without the session and without any of its messages, every other
\* session and message being kept; on these tables the history of the
\* identifier is not-found and a second delete_session returns false; on an
\* identifier without session it returns false and the tables as they were
\* (stated of the tables every step of the store leads to).
\* A successful step of the delete endpoint is such a deletion, and the
\* history endpoint answers 404 exactly for an identifier without session.
C12_DeleteSession ==
    [][/\ \A sid \in SessionIds :
             <<sessions', messages'>> = <<sessions, messages>> \/
             LET r == delete_session(sessions', messages', sid)
             IN  IF sid \in DOMAIN sessions'
                 THEN /\ r.deleted = TRUE
                      /\ DOMAIN r.sessions = DOMAIN sessions' \ {sid}
                      /\ \A i \in DOMAIN r.sessions : r.sessions[i] = sessions'[i]
                      /\ Rows(r.messages, sid) = <<>>
                      /\ \A o \in SessionIds \ {sid} :
                            Rows(r.messages, o) = Rows(messages', o)
                      /\ Len(r.messages) = Len(messages') - Len(Rows(messages', sid))
                      /\ DOMAIN ChatbotService_get_session_history(
                             r.sessions, r.messages, sid) = {"error"}
                      /\ delete_session(r.sessions, r.messages, sid).deleted = FALSE
                 ELSE /\ r.deleted = FALSE
                      /\ r.sessions = sessions'
                      /\ r.messages = messages'
       /\ (DeleteStep /\ reply'.status = 200) =>
             LET sid == reply'.session_id
             IN  /\ sid \in DOMAIN sessions
                 /\ sid \notin DOMAIN sessions'
                 /\ Rows(messages', sid) = <<>>
                 /\ \A o \in SessionIds \ {sid} :
                       /\ o \in DOMAIN sessions <=> o \in DOMAIN sessions'
                       /\ Rows(messages', o) = Rows(messages, o)
       /\ (reply' # reply /\ reply'.op = "history") =>
             (reply'.status = 404 <=> reply'.session_id \notin DOMAIN sessions)]_vars

\* the history endpoint answers not-found for the session in which the turn
\* stored its message
C12_Witness ==
    /\ reply.op = "history"
    /\ reply.status = 404
    /\ hist[1].userSeq > 0
    /\ reply.session_id = sess[1]
    /\ messages = <<>>

\* C13: a step that removes a session owned by a customer, or any of its
\* messages, is a delete request authenticated as that customer.
C13_OwnerOnlyDeletes ==
    [][\A sid \in DOMAIN sessions :
          (/\ sessions[sid] # NoCustomer
           /\ \/ sid \notin DOMAIN sessions'
              \/ ~IsPrefix(Rows(messages, sid), Rows(messages', sid)))
             => /\ reply'.op = "delete"
                /\ reply'.session_id = sid
                /\ reply'.customer_id = sessions[sid]]_vars

C15_RecentContext ==
    \A t \in Turns :
        (pc[t] = "model" /\ iteration[t] = 0) =>
            LET h == Rows(messages, sess[t])
                n == Len(contents[t])
            IN  /\ n <= 20
                /\ n = IF Len(h) > 20 THEN 20 ELSE Len(h)
                /\ \A i \in 1..n :
                      /\ DOMAIN contents[t][i] = {"role", "text"}
                      /\ contents[t][i].role = h[Len(h) - n + i].role
                      /\ contents[t][i].text = h[Len(h) - n + i].content

C15_Witness ==
    /\ pc[1] = "model"
    /\ Len(Rows(messages, sess[1])) > 21
    /\ Len(contents[1]) = 20
    /\ contents[1][20].text = "hi"

C17_TurnFinishes ==
    \A t \in Turns : (pc[t] # "idle") ~> (pc[t] \in {"done", "failed"})

C17_Witness ==
    /\ pc[1] = "done"
    /\ hist[1].withTools = 5
    /\ hist[1].withoutTools = 1
    /\ Len(results[1]) = 10
    /\ world.rounds > 0

\* C18: from the first model call of a turn to its last, the log holds of
\* the turn only its user message, with the inbound text and no usage
\* record; when the turn has returned, its session holds after that message
\* exactly one more, with role model, the returned text and the returned
\* cumulative usage.
C18_TwoMessages ==
    \A t \in Turns :
        LET user == [seq |-> hist[t].userSeq, sid |-> sess[t], role |-> "user",
                     content |-> req[t].msg, usage |-> NoUsageRecord]
        IN  /\ pc[t] \in {"model", "tools", "persist"} => messages = <<user>>
            /\ pc[t] = "done" =>
                  /\ sess[t] = out[t].session_id
                  /\ Len(Rows(messages, out[t].session_id)) = 2
                  /\ Rows(messages, out[t].session_id)[1] = user
                  /\ Rows(messages, out[t].session_id)[2] =
                        [seq |-> hist[t].userSeq + 1, sid |-> out[t].session_id,
                         role |-> "model", content |-> out[t].response,
                         usage |-> out[t].token_usage]
                  /\ out[t].token_usage = ExpectedUsage(t)

C18_Witness ==
    \E t \in Turns :
        /\ pc[t] = "done"
        /\ Len(messages) = 2
        /\ hist[t].withTools = 3
        /\ Len(results[t]) = 3
        /\ messages[2].usage.total_tokens = 9

C20_CompareProducts ==
    (/\ tool.kind = "result"
     /\ tool.name = "compare_products"
     /\ "product_ids" \in DOMAIN tool.args => tool.args["product_ids"].type = "list")
        => LET ids == IF "product_ids" \in DOMAIN tool.args
                      THEN tool.args["product_ids"].items ELSE <<>>
               n == Len(ids)
               sent == _compare_products(tool.args, tool.env).paths
               answered == tool.env.first = "ok" /\ tool.env.rest = "ok"
           IN  /\ tool.res.requests = Len(sent)
               /\ IF n < 2 \/ n > 5
                  THEN /\ sent = <<>>
                       /\ tool.res.kind = "return"
                       /\ tool.res.value.success = TRUE
                       /\ DOMAIN tool.res.value.data = {"error"}
                  ELSE /\ Len(sent) <= 2 * n
                       /\ \A k \in 1..Len(sent) :
                             sent[k] = [path |-> IF k % 2 = 1 THEN "/products" ELSE "/stock",
                                        id |-> ids[(k + 1) \div 2]]
                       /\ answered =>
                             /\ Len(sent) = 2 * n
                             /\ tool.res.kind = "return"
                             /\ tool.res.value.success = TRUE
                             /\ DOMAIN tool.res.value.data =
                                   {"products", "stock_info", "comparison_attributes"}
                             /\ Len(tool.res.value.data.products) = n
                             /\ Len(tool.res.value.data.stock_info) = n
                             /\ \A i \in 1..n :
                                   /\ tool.res.value.data.products[i] =
                                         [path |-> "/products", id |-> ids[i]]
                                   /\ tool.res.value.data.stock_info[i] =
                                         [path |-> "/stock", id |-> ids[i]]
                             /\ tool.res.value.data.comparison_attributes =
                                   <<"product_name", "product_brand", "retail_price",
                                     "department", "stock_status">>
                       /\ ~answered => Len(sent) < 2 * n \/ tool.res.kind = "raise"
                                       \/ tool.res.value.success = FALSE

C20_Witness ==
    /\ tool.kind = "result"
    /\ tool.name = "compare_products"
    /\ "product_ids" \in DOMAIN tool.args
    /\ tool.args["product_ids"] = ListVal(5)
    /\ tool.env.first = "ok"
    /\ tool.env.rest = "ok"
    /\ tool.res.requests = 10
    /\ tool.res.value.success = TRUE
\* the entries that hold a recognised product, in the order of the results
Recognised(es) == SelectSeq(es, LAMBDA e : e.key # "none" /\ "product_id" \in DOMAIN e.product)

\* the first position of the identifier in a sequence of recognised entries
FirstSeen(rs, id) == CHOOSE i \in 1..Len(rs) :
    /\ rs[i].product["product_id"] = id
    /\ \A j \in 1..(i - 1) : rs[j].product["product_id"] # id

\* C21: product extraction returns the no-products signal exactly when no
\* product was found, and otherwise a non-empty list without a repeated
\* identifier, whose entries are the first-seen occurrences of their
\* identifiers with the fields of that occurrence, in first-seen order, each
\* with its own image URL when it has one and the derived one otherwise.
C21_ExtractProducts ==
    tool.kind = "products" =>
        LET rs == Recognised(tool.entries)
            ids == {rs[i].product["product_id"] : i \in 1..Len(rs)}
            ps == tool.products.list
        IN  /\ tool.products.none <=> rs = <<>>
            /\ ~tool.products.none => ps # <<>>
            /\ tool.products.none => ps = <<>>
            /\ \A i, j \in 1..Len(ps) : i # j => ps[i]["product_id"] # ps[j]["product_id"]
            /\ {ps[i]["product_id"] : i \in 1..Len(ps)} = ids
            /\ \A i \in 1..Len(ps) :
                   LET first == rs[FirstSeen(rs, ps[i]["product_id"])].product
                   IN  /\ DOMAIN ps[i] = DOMAIN first \cup {"image_url"}
                       /\ \A k \in DOMAIN first : ps[i][k] = first[k]
                       /\ "image_url" \notin DOMAIN first =>
                              ps[i]["image_url"] = picsum(ps[i]["product_id"])
            /\ \A i, j \in 1..Len(ps) :
                   i < j => FirstSeen(rs, ps[i]["product_id"]) < FirstSeen(rs, ps[j]["product_id"])

\* an identifier seen twice with different fields, the first time without an
\* image URL, and a second identifier after it
C21_Witness ==
    /\ tool.kind = "products"
    /\ Len(tool.entries) = 3
    /\ tool.entries[1].product = [k \in {"product_id"} |-> 2]
    /\ tool.entries[2].product = [product_id |-> 2, image_url |-> "cdn"]
    /\ tool.entries[3].product = [product_id |-> 1, image_url |-> "cdn"]
    /\ tool.entries[1].key = "items" /\ tool.entries[2].key = "suggestions"
    /\ Len(tool.products.list) = 2
    /\ tool.products.list[1]["image_url"] = picsum(2)

\* the result of find_address_by_label where the handler got as far as the
\* address list
AddressResult ==
    /\ tool.kind = "result"
    /\ tool.name = "find_address_by_label"
    /\ tool.res.kind = "return"
    /\ "data" \in DOMAIN tool.res.value
    /\ "found" \in DOMAIN tool.res.value.data

RequestedLabel == IF "label" \in DOMAIN tool.args THEN lower(tool.args["label"].text) ELSE <<>>

SavedLabel(i) ==
    LET l == tool.env.addresses[i].customer_address_label
    IN  IF l = NoLabel THEN <<>> ELSE lower(l)

\* the positions of the saved addresses whose label, compared without case,
\* holds the requested label or is held by it
Matches ==
    {i \in 1..Len(tool.env.addresses) :
        In(RequestedLabel, SavedLabel(i)) \/ In(SavedLabel(i), RequestedLabel)}

\* C22: find_address_by_label never returns an address identifier that is
\* not the identifier of a saved address: with a matching address the
\* recommended identifier is that of the first match in list order; with
\* none the result reports found = false, lists every saved address as an
\* alternative and has no recommended identifier.
C22_NoFabricatedAddress ==
    AddressResult =>
        LET data == tool.res.value.data
            saved == tool.env.addresses
        IN  /\ "recommended_address_id" \in DOMAIN data =>
                   \E i \in 1..Len(saved) :
                       saved[i].customer_address_id = data.recommended_address_id
            /\ Matches # {} =>
                   /\ data.found
                   /\ data.recommended_address_id =
                          saved[CHOOSE i \in Matches : \A j \in Matches : i <= j].customer_address_id
            /\ Matches = {} =>
                   /\ ~data.found
                   /\ "recommended_address_id" \notin DOMAIN data
                   /\ "matching_addresses" \notin DOMAIN data
                   /\ saved # <<>> =>
                          /\ Len(data.available_addresses) = Len(saved)
                          /\ \A i \in 1..Len(saved) :
                                 /\ data.available_addresses[i].customer_address_id =
                                        saved[i].customer_address_id
                                 /\ data.available_addresses[i].label =
                                        saved[i].customer_address_label

\* "home" against "Work" and "Home Office": the second address is recommended
C22_Witness ==
    /\ AddressResult
    /\ Len(tool.env.addresses) = 2
    /\ RequestedLabel = <<"h", "o", "m", "e">>
    /\ SavedLabel(1) = <<"w", "o", "r", "k">>
    /\ Matches = {2}
    /\ tool.res.value.data.recommended_address_id = 5

\* C30: find_address_by_label reports a saved address as a match only when
\* the address has a non-empty label, the requested label is non-empty and
\* one of the two, compared without case, is a substring of the other.
C30_LabelledMatchesOnly ==
    AddressResult /\ tool.res.value.data.found =>
        LET data == tool.res.value.data
            saved == tool.env.addresses
            Labelled == {i \in Matches : RequestedLabel # <<>> /\ SavedLabel(i) # <<>>}
        IN  /\ \A k \in 1..Len(data.matching_addresses) :
                   \E i \in Labelled : data.matching_addresses[k] = saved[i]
            /\ \E i \in Labelled :
                   data.recommended_address_id = saved[i].customer_address_id

\* C23: in check_stock_by_name a failing stock request does not abort the
\* batch: when the search answered with products, the tool succeeds and its
\* result has exactly one entry per product of the search, in search order;
\* the entry of a product whose stock request failed carries an error marker
\* and every other entry carries the stock fields.
C23_StockBatch ==
    tool.kind = "result" /\ tool.name = "check_stock_by_name"
            /\ tool.env.first = "ok" /\ tool.env.items > 0 =>
        /\ tool.res.kind = "return"
        /\ tool.res.value.success
        /\ LET found == SearchItems(tool.env)
               entries == tool.res.value.data.products_with_stock
           IN  /\ Len(entries) = Len(found)
               /\ \A i \in 1..Len(found) :
                      /\ entries[i].product_id = found[i].product_id
                      /\ tool.env.each[i] # "ok" =>
                             /\ "error" \in DOMAIN entries[i]
                             /\ "stock_status" \notin DOMAIN entries[i]
                      /\ tool.env.each[i] = "ok" =>
                             /\ "error" \notin DOMAIN entries[i]
                             /\ {"stock_status", "is_in_stock"} \subseteq DOMAIN entries[i]

\* two products found, the stock request of the first fails, the second answers
C23_Witness ==
    /\ tool.kind = "result"
    /\ tool.name = "check_stock_by_name"
    /\ tool.env.first = "ok"
    /\ tool.env.items = 2
    /\ tool.env.each = <<"err_msg", "ok">>
    /\ tool.res.kind = "return"
    /\ "error" \in DOMAIN tool.res.value.data.products_with_stock[1]
    /\ "stock_status" \in DOMAIN tool.res.value.data.products_with_stock[2]

GiftResult ==
    /\ tool.kind = "result"
    /\ tool.name = "get_gift_suggestions"
    /\ tool.res.kind = "return"
    /\ tool.res.value.success

\* the same call without the preference text
WithoutPreferences(args) == [k \in DOMAIN args \ {"preferences"} |-> args[k]]

\* C24: get_gift_suggestions maps the recipient to at most 3 categories
\* (the default ones for a recipient that is not in the table), expands the
\* preference text through the synonym table and uses it in the searches,
\* issues exactly one catalog search per selected category, and returns at
\* most 10 suggestions without a repeated product identifier.
C24_GiftSuggestions ==
    GiftResult =>
        LET run == _get_gift_suggestions(tool.args, tool.env)
            plain == _get_gift_suggestions(WithoutPreferences(tool.args), tool.env)
            recipient == IF "recipient" \in DOMAIN tool.args
                         THEN lower(tool.args["recipient"].text) ELSE <<>>
            known == {i \in 1..Len(GIFT_CATEGORY_MAPPING) :
                         GIFT_CATEGORY_MAPPING[i].key = recipient}
            categories == IF known = {} THEN default_categories
                          ELSE GIFT_CATEGORY_MAPPING[CHOOSE i \in known : TRUE].value
            suggestions == tool.res.value.data.suggestions
        IN  /\ Len(run.searches) <= 3
            /\ \A k \in 1..Len(run.searches) : run.searches[k].search = categories[k]
            /\ Len(run.searches) = IF Len(categories) < 3 THEN Len(categories) ELSE 3
            /\ tool.res.requests = Len(run.searches)
            /\ "preferences" \in DOMAIN tool.args =>
                   /\ run.search_terms.own = <<tool.args["preferences"].text>>
                   /\ run.searches # plain.searches
            /\ Len(suggestions) <= 10
            /\ \A i, j \in 1..Len(suggestions) :
                   i # j => suggestions[i].product_id # suggestions[j].product_id

\* C25: when a request of a tool is answered with a 4xx/5xx status and the
\* handler lets the status error out, the tool's result is
\* {success: false, error: m}: m is the message field of the body when the
\* body has one, and the text of the HTTP failure when it has none.
C25_ErrorMessage ==
    tool.kind = "result" /\ tool.name \in ToolNames =>
        LET h == Handler(tool.name, tool.args, tool.tok, tool.env)
        IN  h.kind = "raise" /\ h.exc = "HTTPStatusError" =>
                /\ tool.res.kind = "return"
                /\ tool.res.value =
                       [success |-> FALSE,
                        error |-> IF h.body = "err_msg" THEN "message" ELSE "HTTPStatusError"]

\* the step of turn t that reads the history and builds the context of the
\* first model call
ContextStep(t) == pc[t] = "context" /\ pc'[t] = "model"

OwnMessage(t) == [role |-> "user", text |-> req[t].msg]

C27_NoOrphanMessages ==
    \A i \in 1..Len(messages) : messages[i].sid \in DOMAIN sessions

\* a session was deleted after a turn had stored its user message in it and
\* before the turn stored the model's answer: the second append was refused
C27_Witness ==
    \E t \in Turns :
        /\ pc[t] = "failed"
        /\ out[t].exc = "IntegrityError"
        /\ hist[t].userSeq > 0
        /\ sess[t] \notin DOMAIN sessions
        /\ reply.op = "delete"

\* C28: a chat turn appends messages only to a session that the requester
\* owns, to a guest session, or to a session it has just created (which is
\* the requester's or a guest's): it never appends to the session of another
\* customer.
C28_AppendsToOwnSession ==
    [][\A t \in Turns :
          pc'[t] # pc[t] /\ Len(messages') > Len(messages) =>
              LET row == messages'[Len(messages')]
              IN  /\ row.sid = sess[t]
                  /\ sessions[row.sid] \in {NoCustomer, req[t].cust}]_vars

\* the credentials get_optional_customer_id accepts
ValidCredential(cred) ==
    cred.present /\ cred.decodes /\ cred.sub # 0 /\ cred.type = "customer" /\ cred.numeric

\* C29: the execution context of a turn has a bearer token if and only if it
\* has a customer identifier; a missing, undecodable, expired, non-customer
\* or non-numeric-subject credential makes the turn run as a guest, without
\* token and without customer identifier, so the tools that need an identity
\* report authentication-required and a session the turn creates has no owner.
C29_TokenIffCustomer ==
    \A t \in Turns :
        pc[t] # "idle" =>
            /\ req[t].tok # NoToken <=> req[t].cust # NoCustomer
            /\ ~ValidCredential(hist[t].cred) =>
                   /\ req[t].tok = NoToken
                   /\ req[t].cust = NoCustomer
                   /\ \A i \in 1..Len(results[t]) :
                          results[t][i].tool \in AuthTools =>
                              results[t][i].result =
                                  [success |-> TRUE,
                                   data |-> [error |-> AuthMessage[results[t][i].tool]]]
                   /\ \A s \in DOMAIN sessions : sessions[s] = NoCustomer

\* a turn with a customer token whose subject is not a number has finished:
\* its session has no owner and its cart call was answered with
\* authentication-required
C29_Witness ==
    /\ pc[1] = "done"
    /\ hist[1].cred.present
    /\ hist[1].cred.decodes
    /\ hist[1].cred.type = "customer"
    /\ ~hist[1].cred.numeric
    /\ hist[1].cred.sub # 0
    /\ sessions[sess[1]] = NoCustomer
    /\ Len(results[1]) = 2
    /\ results[1][2].tool = "get_cart"

====
